---- MODULE Spec2Model ----
(***************************************************************************)
(* Model of the KPI comparison service: run_comparison_pipeline            *)
(* (src/compare_service.py) as called by compare_kpis (src/app.py).        *)
(*                                                                         *)
(* An invocation is a sequence of stages: create the temporary directory   *)
(* and write the archive, extract it, locate the workbooks of the year,    *)
(* load and merge them, filter by country, compute the discrepancies and   *)
(* the summary, build the five figures, return.  Any exception raised      *)
(* inside the try block is turned into a "Processing error" triple.        *)
(***************************************************************************)
EXTENDS Integers, Sequences, FiniteSets, TLC

(***************************************************************************)
(* Bounds of the model.                                                    *)
(***************************************************************************)
MaxFiles == 2        \* entries of an uploaded archive
MaxKpi == 2          \* KPI cells range over 0..MaxKpi and the missing value
MaxRows == 11        \* rows of the longest dataset given to the figures

Invocations == {1, 2}

(***************************************************************************)
(* Cells of a table.  A cell is a number, a missing value (NaN) or text.   *)
(***************************************************************************)
Num(x) == [t |-> "num", n |-> x, s |-> ""]
NaN == [t |-> "nan", n |-> 0, s |-> ""]
Txt(x) == [t |-> "str", n |-> 0, s |-> x]

IsNum(c) == c.t = "num"
IsNaN(c) == c.t = "nan"
IsTxt(c) == c.t = "str"

\* Python's None and a present value.
None == <<>>
Some(v) == <<v>>

KPI_COLS == <<"Reported Value to Regulator", "Reported Value to Group",
              "Actual Value MAPS Networks">>
KpiSet == {KPI_COLS[k] : k \in 1..3}
DIFF_COLS == <<"Diff_Reg_vs_Grp", "Diff_Reg_vs_Act", "Diff_Grp_vs_Act">>
DiffSet == {DIFF_COLS[k] : k \in 1..3}
TopN == 10
ALL_COUNTRIES == "All Countries"

(***************************************************************************)
(* Text: names are sequences of one-character strings.                     *)
(***************************************************************************)
Letters ==
  {"A","B","C","D","E","F","G","H","I","J","K","L","M","N","O","P","Q","R",
   "S","T","U","V","W","X","Y","Z","a","b","c","d","e","f","g","h","i","j",
   "k","l","m","n","o","p","q","r","s","t","u","v","w","x","y","z"}
DigitChars == <<"0","1","2","3","4","5","6","7","8","9">>
Digits == {DigitChars[k] : k \in 1..10}

RECURSIVE Join(_)
Join(cs) == IF cs = <<>> THEN "" ELSE Head(cs) \o Join(Tail(cs))

\* str(selected_year): the decimal digits of an integer, "-" first if negative.
RECURSIVE Str(_)
Str(n) ==
  IF n < 0 THEN <<"-">> \o Str(-n)
  ELSE IF n < 10 THEN <<DigitChars[n + 1]>>
  ELSE Str(n \div 10) \o <<DigitChars[(n % 10) + 1]>>

\* re.match(r"[A-Za-z]{3}\d{4}", name): anchored at the start only.
ReMatch(name) ==
  /\ Len(name) >= 7
  /\ \A k \in 1..3 : name[k] \in Letters
  /\ \A k \in 4..7 : name[k] \in Digits

MonthOf(name) == SubSeq(name, 1, 3)
YearOf(name) == SubSeq(name, 4, Len(name))

\* The test of lines 33-36 on a stem: the pattern, then the year comparison.
Selects(name, year) == ReMatch(name) /\ YearOf(name) = Str(year)

(***************************************************************************)
(* The files an archive may hold.  A table has the columns of its header   *)
(* row and its data rows; an unreadable workbook makes read_excel raise.   *)
(***************************************************************************)
Row(c, a, b, d) ==
  ("Country" :> Txt(c)) @@ (KPI_COLS[1] :> a) @@ (KPI_COLS[2] :> b)
    @@ (KPI_COLS[3] :> d)
RowNoCountry(a, b, d) ==
  (KPI_COLS[1] :> a) @@ (KPI_COLS[2] :> b) @@ (KPI_COLS[3] :> d)
RowNoActual(c, a, b) ==
  ("Country" :> Txt(c)) @@ (KPI_COLS[1] :> a) @@ (KPI_COLS[2] :> b)

FullCols == {"Country"} \cup KpiSet
Table(cols, rows) == [readable |-> TRUE, columns |-> cols, rows |-> rows]
Unreadable == [readable |-> FALSE, columns |-> {}, rows |-> <<>>]

File(dir, stem, suffix, table) ==
  [dir |-> dir, stem |-> stem, suffix |-> suffix, table |-> table]

Catalogue ==
  << File("", <<"J","a","n","2","0","2","3">>, ".xlsx",
          Table(FullCols, << Row("A", Num(1), Num(1), Num(1)),
                             Row("B", Num(1), Num(2), Num(1)) >>)),
     File("", <<"F","e","b","2","0","2","3">>, ".xlsx",
          Table(KpiSet, << RowNoCountry(Num(2), Num(2), Num(2)),
                           RowNoCountry(Num(0), Num(2), Num(1)) >>)),
     File("old/", <<"J","a","n","2","0","2","3">>, ".xlsx",
          Table(FullCols, << Row("A", Num(3), Num(1), Num(1)) >>)),
     File("", <<"J","a","n","2","0","2","3","5">>, ".xlsx",
          Table(FullCols, << Row("A", Num(1), Num(1), Num(1)) >>)),
     File("", <<"J","a","n","2","0","2","3">>, ".csv", Unreadable),
     File("", <<"M","a","r","2","0","2","3">>, ".xlsx",
          Table({"Country", KPI_COLS[1], KPI_COLS[2]},
                << RowNoActual("A", Num(1), Num(1)) >>)),
     File("", <<"A","p","r","2","0","2","3">>, ".xlsx",
          Table(FullCols, << Row("B", Num(1), Num(1), NaN) >>)),
     File("", <<"M","a","y","2","0","2","3">>, ".xlsx",
          Table(FullCols, << Row("B", Txt("n/a"), Num(1), Num(1)),
                             Row("A", Num(1), Num(1), Num(1)) >>)),
     File("", <<"J","u","n","2","0","2","3">>, ".xlsx", Unreadable),
     File("", <<"J","a","n","2","0","2","4">>, ".xlsx",
          Table(FullCols, << Row("A", Num(1), Num(1), Num(1)) >>)),
     File("", <<"J","a","n","2","0","2","3","x">>, ".xlsx",
          Table(FullCols, << Row("A", Num(1), Num(1), Num(1)) >>)),
     File("", <<"J","u","l","2","0","2","3">>, ".xlsx",
          Table(FullCols, << >>)) >>

FileIds == 1..Len(Catalogue)
Years == {2023, 20235}
Countries == {ALL_COUNTRIES, "A", "Unknown"}

\* The uploads: bytes that are no archive, or an archive of a few files.
Archives ==
  {[valid |-> FALSE, entries |-> {}]} \cup
  {[valid |-> TRUE, entries |-> S] :
     S \in {T \in SUBSET FileIds : Cardinality(T) <= MaxFiles}}

Perms(S) ==
  {p \in [1..Cardinality(S) -> S] :
     \A a, b \in 1..Cardinality(S) : p[a] = p[b] => a = b}

\* Path(tmpdir).rglob("*.xlsx") over the extracted files.
IsXlsx(f) == Catalogue[f].suffix = ".xlsx"

(***************************************************************************)
(* year_files: a dict, kept as its items in insertion order.               *)
(***************************************************************************)
\* A dict that kept the first value put under a key.
DictPutKeepFirst(d, k, v) ==
  IF \E j \in 1..Len(d) : d[j].key = k THEN d ELSE Append(d, [key |-> k, val |-> v])

HasKey(d, k) == \E j \in 1..Len(d) : d[j].key = k
DictPut(d, k, v) ==
  IF HasKey(d, k)
    THEN [j \in 1..Len(d) |-> IF d[j].key = k THEN [key |-> k, val |-> v] ELSE d[j]]
    ELSE Append(d, [key |-> k, val |-> v])

\* Lines 30-37: the loop over excel_files.
RECURSIVE YearFiles(_, _, _)
YearFiles(files, year, acc) ==
  IF files = <<>> THEN acc
  ELSE LET f == Head(files)
           name == Catalogue[f].stem
       IN YearFiles(Tail(files), year,
                    IF Selects(name, year)
                      THEN DictPut(acc, MonthOf(name), f)
                      ELSE acc)

VARIABLES
  zip_bytes,       \* the uploaded bytes (argument of every invocation)
  selected_year,   \* the year argument
  country,         \* the country argument
  sheets,          \* the table each file of the upload holds
  strict_dtypes,   \* whether the installed pandas keeps Max_Diff as object
  pc,              \* the stage each invocation is at
  tmpdir,          \* the temporary directory of each invocation
  excel_files,     \* line 29: the workbooks found, in enumeration order
  year_files,      \* line 30: month label -> file, in insertion order
  loaded,          \* the files read_excel was called on
  df,              \* the frame of each invocation
  summary,         \* the summary, once computed
  plots,           \* the dict of figures, as far as built
  top_mismatches,  \* line 110: the frame behind the table figure
  result,          \* the triple returned
  stages           \* the stages each invocation has run

vars ==
  <<zip_bytes, selected_year, country, sheets, strict_dtypes, pc, tmpdir, excel_files,
    year_files, loaded, df, summary, plots, top_mismatches, result, stages>>

(***************************************************************************)
(* The dataset: a DataFrame is its columns, the KPI columns whose dtype is *)
(* object (a column holding text), and its rows, each with its index label.*)
(***************************************************************************)
Max(S) == CHOOSE x \in S : \A y \in S : y <= x
Abs(x) == IF x < 0 THEN -x ELSE x

\* Lines 45-46: pd.read_excel(filepath), then the Month column.
ReadMonth(item) ==
  LET t == sheets[item.val]
  IN [columns |-> t.columns \cup {"Month"},
      rows |-> [j \in 1..Len(t.rows) |->
                  ("Month" :> Txt(Join(item.key))) @@ t.rows[j]]]

RECURSIVE ConcatColumns(_)
ConcatColumns(items) ==
  IF items = <<>> THEN {}
  ELSE ReadMonth(Head(items)).columns \cup ConcatColumns(Tail(items))

RECURSIVE ConcatRows(_)
ConcatRows(items) ==
  IF items = <<>> THEN <<>>
  ELSE ReadMonth(Head(items)).rows \o ConcatRows(Tail(items))

\* Line 48: pd.concat(df_list, ignore_index=True): the union of the columns, a
\* cell of a column its file lacks is missing, the index is renumbered.
Concat(items) ==
  LET cols == ConcatColumns(items)
      rows == ConcatRows(items)
  IN [columns |-> cols,
      objcols |-> {c \in cols \cap KpiSet :
                     \E j \in 1..Len(rows) :
                       c \in DOMAIN rows[j] /\ IsTxt(rows[j][c])},
      rows |-> [j \in 1..Len(rows) |->
                  [idx |-> j - 1,
                   c |-> [c \in cols |->
                            IF c \in DOMAIN rows[j] THEN rows[j][c] ELSE NaN]]]]

\* Lines 51-52.
EnsureCountry(d) ==
  IF "Country" \in d.columns THEN d
  ELSE [d EXCEPT !.columns = @ \cup {"Country"},
                 !.rows = [j \in 1..Len(@) |->
                             [@[j] EXCEPT !.c = ("Country" :> Txt("Unknown")) @@ @]]]

\* Lines 55-56.
\* The comparison of line 56 without the test of line 55.
KeepsRowNoSentinel(r, cn) == r.c["Country"] = Txt(cn)
KeepsRow(r, cn) == cn = ALL_COUNTRIES \/ r.c["Country"] = Txt(cn)
FilterCountry(d, cn) ==
  [d EXCEPT !.rows = SelectSeq(@, LAMBDA r : KeepsRow(r, cn))]

\* df.empty
IsEmpty(d) == Len(d.rows) = 0 \/ d.columns = {}

(***************************************************************************)
(* Lines 62-65: the discrepancy columns.                                   *)
(***************************************************************************)
KeyError(col) == "'" \o col \o "'"
TypeError == "unsupported operand type(s) for -: 'str' and 'int'"

ColHasTxt(d, col) == \E j \in 1..Len(d.rows) : IsTxt(d.rows[j].c[col])

\* The exception lines 62-64 raise on this frame, if any, in evaluation order.
ComputeError(d) ==
  IF KPI_COLS[1] \notin d.columns THEN Some(KeyError(KPI_COLS[1]))
  ELSE IF KPI_COLS[2] \notin d.columns THEN Some(KeyError(KPI_COLS[2]))
  ELSE IF ColHasTxt(d, KPI_COLS[1]) \/ ColHasTxt(d, KPI_COLS[2]) THEN Some(TypeError)
  ELSE IF KPI_COLS[3] \notin d.columns THEN Some(KeyError(KPI_COLS[3]))
  ELSE IF ColHasTxt(d, KPI_COLS[3]) THEN Some(TypeError)
  ELSE None

\* (a - b).abs(): a missing operand gives a missing difference.
Diff(a, b) == IF IsNaN(a) \/ IsNaN(b) THEN NaN ELSE Num(Abs(a.n - b.n))

\* df[KPI_COLS].nunique(axis=1): the distinct values, missing ones not counted.
Nunique(c) == Cardinality({c[KPI_COLS[k]] : k \in 1..3} \ {NaN})
AllMatch(c) == Nunique(c) = 1

WithDiffs(c) ==
  ("Diff_Reg_vs_Grp" :> Diff(c[KPI_COLS[1]], c[KPI_COLS[2]]))
  @@ ("Diff_Reg_vs_Act" :> Diff(c[KPI_COLS[1]], c[KPI_COLS[3]]))
  @@ ("Diff_Grp_vs_Act" :> Diff(c[KPI_COLS[2]], c[KPI_COLS[3]]))
  @@ c

Discrepancies(d) ==
  [d EXCEPT !.columns = @ \cup DiffSet \cup {"All_Match"},
            !.rows = [j \in 1..Len(@) |->
                        [@[j] EXCEPT !.c = ("All_Match" :> AllMatch(@)) @@ WithDiffs(@)]]]

(***************************************************************************)
(* Lines 68-79: the summary.  A mean is kept as <<sum, count>> over the    *)
(* cells that are not missing (Series.mean skips them).                    *)
(***************************************************************************)
RECURSIVE SumCells(_, _)
SumCells(rows, col) ==
  IF rows = <<>> THEN 0
  ELSE (IF IsNaN(Head(rows).c[col]) THEN 0 ELSE Head(rows).c[col].n)
       + SumCells(Tail(rows), col)

CountCells(rows, col) ==
  Cardinality({j \in 1..Len(rows) : ~IsNaN(rows[j].c[col])})

Mean(rows, col) == <<SumCells(rows, col), CountCells(rows, col)>>

CountMatch(rows) == Cardinality({j \in 1..Len(rows) : rows[j].c["All_Match"]})

Summary(d, year, cn) ==
  [year |-> Join(Str(year)), country |-> cn,
   total |-> Len(d.rows),
   all_match |-> CountMatch(d.rows),
   mismatch |-> Len(d.rows) - CountMatch(d.rows),
   avg |-> [k \in 1..3 |-> Mean(d.rows, DIFF_COLS[k])]]

(***************************************************************************)
(* Lines 81-141: the figures.                                              *)
(***************************************************************************)
\* Line 109: max(axis=1) over the three differences, missing ones skipped.
MaxDiff(c) ==
  LET S == {c[DIFF_COLS[k]].n : k \in {k \in 1..3 : ~IsNaN(c[DIFF_COLS[k]])}}
  IN IF S = {} THEN NaN ELSE Num(Max(S))

WithMaxDiff(d) ==
  [d EXCEPT !.columns = @ \cup {"Max_Diff"},
            !.rows = [j \in 1..Len(@) |->
                        [@[j] EXCEPT !.c = ("Max_Diff" :> MaxDiff(@)) @@ @]]]

Remove(s, j) == SubSeq(s, 1, j - 1) \o SubSeq(s, j + 1, Len(s))

\* Among equal values the last row first (keep="last").
LastLargest(rows, col) ==
  CHOOSE j \in 1..Len(rows) :
    \A k \in 1..Len(rows) :
      \/ rows[j].c[col].n > rows[k].c[col].n
      \/ rows[j].c[col].n = rows[k].c[col].n /\ j >= k

\* Rows in descending order of a numeric column, equal values in row order.
FirstLargest(rows, col) ==
  CHOOSE j \in 1..Len(rows) :
    \A k \in 1..Len(rows) :
      \/ rows[j].c[col].n > rows[k].c[col].n
      \/ rows[j].c[col].n = rows[k].c[col].n /\ j <= k

RECURSIVE SortDesc(_, _)
SortDesc(rows, col) ==
  IF rows = <<>> THEN <<>>
  ELSE LET j == FirstLargest(rows, col)
       IN <<rows[j]>> \o SortDesc(Remove(rows, j), col)

\* Line 110: df.nlargest(10, "Max_Diff"), keep="first": the rows with a value
\* in descending order, then the rows without one, cut to n rows.
NLargest(n, rows, col) ==
  LET valued == SelectSeq(rows, LAMBDA r : ~IsNaN(r.c[col]))
      missing == SelectSeq(rows, LAMBDA r : IsNaN(r.c[col]))
      all == SortDesc(valued, col) \o missing
  IN SubSeq(all, 1, IF Len(all) < n THEN Len(all) ELSE n)

TableCols == {"Country", "Month", "Max_Diff"} \cup KpiSet

\* Lines 110-112: the frame top_mismatches, rows keeping their index labels.
TopMismatches(d) ==
  LET top == NLargest(TopN, WithMaxDiff(d).rows, "Max_Diff")
  IN [j \in 1..Len(top) |->
        [idx |-> top[j].idx, c |-> [col \in TableCols |-> top[j].c[col]]]]

\* groupby drops the rows whose key is missing.
CountriesOf(rows) ==
  {rows[j].c["Country"].s : j \in {j \in 1..Len(rows) : IsTxt(rows[j].c["Country"])}}

\* Line 122.
Heatmap(rows) ==
  [cn \in CountriesOf(rows) |->
     LET grp == SelectSeq(rows, LAMBDA r : r.c["Country"] = Txt(cn))
     IN [k \in 1..3 |-> Mean(grp, DIFF_COLS[k])]]

\* Lines 131-134.
TrendKeys(rows) ==
  {<<rows[j].c["Month"].s, rows[j].c["Country"].s>> :
     j \in {j \in 1..Len(rows) : IsTxt(rows[j].c["Country"])}}
Trend(rows) ==
  [key \in TrendKeys(rows) |->
     LET grp == SelectSeq(rows, LAMBDA r : r.c["Month"].s = key[1]
                                           /\ r.c["Country"] = Txt(key[2]))
     IN <<CountMatch(grp), Len(grp)>>]

\* The table figure holds the columns' values, not the index.
Plots(d, s) ==
  [agreement_pie |-> <<s.all_match, s.mismatch>>,
   pairwise_diff_bar |-> s.avg,
   top_mismatches_table |-> [j \in 1..Len(TopMismatches(d)) |-> TopMismatches(d)[j].c],
   deviation_heatmap |-> Heatmap(d.rows),
   monthly_trend |-> Trend(d.rows)]

PlotKeys ==
  {"agreement_pie", "pairwise_diff_bar", "top_mismatches_table",
   "deviation_heatmap", "monthly_trend"}

(***************************************************************************)
(* Results.                                                                *)
(***************************************************************************)
Triple(p, s, e) == [plots |-> p, summary |-> s, error |-> e]

\* Line 40.
NoFilesResult(year) ==
  Triple(None, None, Some("No files found for year " \o Join(Str(year)) \o "."))
\* Line 59.
NoDataResult(cn, year) ==
  Triple(None, None,
         Some("No data found for " \o cn \o " in " \o Join(Str(year)) \o "."))
\* Lines 145-146.
ErrorResult(cause) == Triple(None, None, Some("Processing error: " \o cause))
\* Line 143.
SuccessResult(p, s) == Triple(Some(p), Some(s), None)

\* src/app.py lines 28-34: the response made of a triple.
Response(r) ==
  IF r.error # None /\ r.error[1] # ""
    THEN [status |-> 400, error |-> r.error, summary |-> None, plots |-> None]
    ELSE [status |-> 200, error |-> None, summary |-> r.summary, plots |-> r.plots]

\* Line 20: the directory as created, and as left by the with statement.
NewDir == [exists |-> TRUE, zip |-> FALSE, files |-> {}]
NoDir == [exists |-> FALSE, zip |-> FALSE, files |-> {}]
\* A directory made with mkdtemp stays.
KeepDir(d) == d
ExitDir(d) == NoDir

EmptyFrame == [columns |-> {}, objcols |-> {}, rows |-> <<>>]
NoResult == Triple(None, None, None)
BadZipFile == "File is not a zip file"
DtypeError ==
  "Column 'Max_Diff' has dtype object, cannot use method 'nlargest' with this dtype"

(***************************************************************************)
(* Initial states: every invocation not yet called.                        *)
(***************************************************************************)
InitLocals ==
  /\ pc = [i \in Invocations |-> "idle"]
  /\ tmpdir = [i \in Invocations |-> NoDir]
  /\ excel_files = [i \in Invocations |-> <<>>]
  /\ year_files = [i \in Invocations |-> <<>>]
  /\ loaded = [i \in Invocations |-> {}]
  /\ df = [i \in Invocations |-> EmptyFrame]
  /\ summary = [i \in Invocations |-> None]
  /\ plots = [i \in Invocations |-> None]
  /\ top_mismatches = [i \in Invocations |-> <<>>]
  /\ result = [i \in Invocations |-> NoResult]
  /\ stages = [i \in Invocations |-> {}]

Init ==
  /\ zip_bytes \in Archives
  /\ selected_year \in Years
  /\ country \in Countries
  /\ sheets = [f \in zip_bytes.entries |-> Catalogue[f].table]
  /\ strict_dtypes \in BOOLEAN
  /\ InitLocals

Inputs == <<zip_bytes, selected_year, country, sheets, strict_dtypes>>

(***************************************************************************)
(* The stages of run_comparison_pipeline, for invocation i.                *)
(***************************************************************************)
\* A handler that returns what was computed so far beside the message.
RaiseKeepingSummary(i, cause) ==
  /\ tmpdir' = [tmpdir EXCEPT ![i] = ExitDir(@)]
  /\ result' = [result EXCEPT ![i] =
                  Triple(None, summary[i], Some("Processing error: " \o cause))]
  /\ pc' = [pc EXCEPT ![i] = "done"]

\* An exception inside the with block: the directory is removed on the way
\* out, the handler of lines 145-146 returns the error triple.
Raise(i, cause) ==
  /\ tmpdir' = [tmpdir EXCEPT ![i] = ExitDir(@)]
  /\ result' = [result EXCEPT ![i] = ErrorResult(cause)]
  /\ pc' = [pc EXCEPT ![i] = "done"]

\* A return inside the with block.
Return(i, r) ==
  /\ tmpdir' = [tmpdir EXCEPT ![i] = ExitDir(@)]
  /\ result' = [result EXCEPT ![i] = r]
  /\ pc' = [pc EXCEPT ![i] = "done"]

\* Lines 20-24: create the directory, write the bytes.
Start(i) ==
  /\ pc[i] = "idle"
  /\ tmpdir' = [tmpdir EXCEPT ![i] = [NewDir EXCEPT !.zip = TRUE]]
  /\ pc' = [pc EXCEPT ![i] = "extract"]
  /\ stages' = [stages EXCEPT ![i] = @ \cup {"workspace"}]
  /\ UNCHANGED <<Inputs, excel_files, year_files, loaded, df, summary, plots,
                 top_mismatches, result>>

\* Lines 25-26 on an archive.
ExtractAll(i) ==
  /\ pc[i] = "extract"
  /\ zip_bytes.valid
  /\ tmpdir' = [tmpdir EXCEPT ![i].files = zip_bytes.entries]
  /\ pc' = [pc EXCEPT ![i] = "locate"]
  /\ stages' = [stages EXCEPT ![i] = @ \cup {"extract"}]
  /\ UNCHANGED <<Inputs, excel_files, year_files, loaded, df, summary, plots,
                 top_mismatches, result>>

\* Lines 25-26 on bytes that are no archive: ZipFile raises.
ExtractFails(i) ==
  /\ pc[i] = "extract"
  /\ ~zip_bytes.valid
  /\ Raise(i, BadZipFile)
  /\ stages' = [stages EXCEPT ![i] = @ \cup {"extract"}]
  /\ UNCHANGED <<Inputs, excel_files, year_files, loaded, df, summary, plots,
                 top_mismatches>>

\* Line 29: the workbooks, in an order the file system decides.
Enumerations(i) == Perms({f \in tmpdir[i].files : IsXlsx(f)})

\* Lines 29-39, some file selected.
LocateFiles(i) ==
  /\ pc[i] = "locate"
  /\ \E order \in Enumerations(i) :
       /\ YearFiles(order, selected_year, <<>>) # <<>>
       /\ excel_files' = [excel_files EXCEPT ![i] = order]
       /\ year_files' = [year_files EXCEPT ![i] = YearFiles(order, selected_year, <<>>)]
  /\ pc' = [pc EXCEPT ![i] = "load"]
  /\ stages' = [stages EXCEPT ![i] = @ \cup {"locate"}]
  /\ UNCHANGED <<Inputs, tmpdir, loaded, df, summary, plots, top_mismatches, result>>

\* The loop of lines 29-37 without the return of lines 39-40.
LocateNoneGoesOn(i) ==
  /\ pc[i] = "locate"
  /\ \E order \in Enumerations(i) :
       /\ YearFiles(order, selected_year, <<>>) = <<>>
       /\ excel_files' = [excel_files EXCEPT ![i] = order]
       /\ year_files' = [year_files EXCEPT ![i] = <<>>]
  /\ pc' = [pc EXCEPT ![i] = "load"]
  /\ stages' = [stages EXCEPT ![i] = @ \cup {"locate"}]
  /\ UNCHANGED <<Inputs, tmpdir, loaded, df, summary, plots, top_mismatches, result>>

\* Lines 29-40, no file selected.
LocateNone(i) ==
  /\ pc[i] = "locate"
  /\ \E order \in Enumerations(i) :
       /\ YearFiles(order, selected_year, <<>>) = <<>>
       /\ excel_files' = [excel_files EXCEPT ![i] = order]
       /\ year_files' = [year_files EXCEPT ![i] = <<>>]
  /\ Return(i, NoFilesResult(selected_year))
  /\ stages' = [stages EXCEPT ![i] = @ \cup {"locate"}]
  /\ UNCHANGED <<Inputs, loaded, df, summary, plots, top_mismatches>>

Unreadables(items) == {j \in 1..Len(items) : ~sheets[items[j].val].readable}
Min(S) == CHOOSE x \in S : \A y \in S : x <= y

\* Lines 43-52: every selected workbook read, merged, Country ensured.
Load(i) ==
  /\ pc[i] = "load"
  /\ Unreadables(year_files[i]) = {}
  /\ loaded' = [loaded EXCEPT ![i] = {year_files[i][j].val : j \in 1..Len(year_files[i])}]
  /\ df' = [df EXCEPT ![i] = EnsureCountry(Concat(year_files[i]))]
  /\ pc' = [pc EXCEPT ![i] = "filter"]
  /\ stages' = [stages EXCEPT ![i] = @ \cup {"load"}]
  /\ UNCHANGED <<Inputs, tmpdir, excel_files, year_files, summary, plots,
                 top_mismatches, result>>

\* Lines 43-47, read_excel raising on the first workbook it cannot read.
LoadFails(i) ==
  /\ pc[i] = "load"
  /\ Unreadables(year_files[i]) # {}
  /\ loaded' = [loaded EXCEPT ![i] =
                  {year_files[i][j].val : j \in 1..Min(Unreadables(year_files[i]))}]
  /\ Raise(i, BadZipFile)
  /\ stages' = [stages EXCEPT ![i] = @ \cup {"load"}]
  /\ UNCHANGED <<Inputs, excel_files, year_files, df, summary, plots, top_mismatches>>

\* Lines 55-58, rows left.
FilterRows(i) ==
  /\ pc[i] = "filter"
  /\ ~IsEmpty(FilterCountry(df[i], country))
  /\ df' = [df EXCEPT ![i] = FilterCountry(@, country)]
  /\ pc' = [pc EXCEPT ![i] = "compute"]
  /\ stages' = [stages EXCEPT ![i] = @ \cup {"filter"}]
  /\ UNCHANGED <<Inputs, tmpdir, excel_files, year_files, loaded, summary, plots,
                 top_mismatches, result>>

\* Lines 55-59, no row left.
FilterEmpty(i) ==
  /\ pc[i] = "filter"
  /\ IsEmpty(FilterCountry(df[i], country))
  /\ df' = [df EXCEPT ![i] = FilterCountry(@, country)]
  /\ Return(i, NoDataResult(country, selected_year))
  /\ stages' = [stages EXCEPT ![i] = @ \cup {"filter"}]
  /\ UNCHANGED <<Inputs, excel_files, year_files, loaded, summary, plots,
                 top_mismatches>>

\* Lines 61-79.
Compute(i) ==
  /\ pc[i] = "compute"
  /\ ComputeError(df[i]) = None
  /\ df' = [df EXCEPT ![i] = Discrepancies(@)]
  /\ summary' = [summary EXCEPT ![i] =
                   Some(Summary(Discrepancies(df[i]), selected_year, country))]
  /\ pc' = [pc EXCEPT ![i] = "charts"]
  /\ stages' = [stages EXCEPT ![i] = @ \cup {"compute"}]
  /\ UNCHANGED <<Inputs, tmpdir, excel_files, year_files, loaded, plots,
                 top_mismatches, result>>

\* Lines 62-64 raising: a KPI column absent, or text in a KPI cell.
ComputeFails(i) ==
  /\ pc[i] = "compute"
  /\ ComputeError(df[i]) # None
  /\ Raise(i, ComputeError(df[i])[1])
  /\ stages' = [stages EXCEPT ![i] = @ \cup {"compute"}]
  /\ UNCHANGED <<Inputs, excel_files, year_files, loaded, df, summary, plots,
                 top_mismatches>>

\* Whether line 110 raises: a KPI column that held text in a row the country
\* filter removed keeps the object dtype, and so do the differences made of
\* it; what dtype Max_Diff gets then depends on the pandas installed, and
\* nlargest rejects an object column.
NLargestRaises(d) == strict_dtypes /\ d.objcols # {}

\* Lines 81-143.
BuildCharts(i) ==
  /\ pc[i] = "charts"
  /\ ~NLargestRaises(df[i])
  /\ df' = [df EXCEPT ![i] = WithMaxDiff(@)]
  /\ top_mismatches' = [top_mismatches EXCEPT ![i] = TopMismatches(df[i])]
  /\ plots' = [plots EXCEPT ![i] = Some(Plots(df[i], summary[i][1]))]
  /\ Return(i, SuccessResult(Plots(df[i], summary[i][1]), summary[i][1]))
  /\ stages' = [stages EXCEPT ![i] = @ \cup {"charts"}]
  /\ UNCHANGED <<Inputs, excel_files, year_files, loaded, summary>>

\* Lines 81-110, nlargest raising after the first two figures were put in
\* the dict.
ChartsFail(i) ==
  /\ pc[i] = "charts"
  /\ NLargestRaises(df[i])
  /\ df' = [df EXCEPT ![i] = WithMaxDiff(@)]
  /\ plots' = [plots EXCEPT ![i] =
                 Some([k \in {"agreement_pie", "pairwise_diff_bar"} |->
                         Plots(df[i], summary[i][1])[k]])]
  /\ Raise(i, DtypeError)
  /\ stages' = [stages EXCEPT ![i] = @ \cup {"charts"}]
  /\ UNCHANGED <<Inputs, excel_files, year_files, loaded, summary, top_mismatches>>

Step(i) ==
  \/ Start(i)
  \/ ExtractAll(i)
  \/ ExtractFails(i)
  \/ LocateFiles(i)
  \/ LocateNone(i)
  \/ Load(i)
  \/ LoadFails(i)
  \/ FilterRows(i)
  \/ FilterEmpty(i)
  \/ Compute(i)
  \/ ComputeFails(i)
  \/ BuildCharts(i)
  \/ ChartsFail(i)

Next == \E i \in Invocations : Step(i)

Spec == Init /\ [][Next]_vars

(***************************************************************************)
(* A second specification: one invocation, without country filter, on an   *)
(* archive holding the single workbook Jan2023.xlsx, whose rows are drawn  *)
(* from bounded sets: every dataset of one or two rows over the KPI cells, *)
(* and the datasets of about TopN rows over two kinds of row (ties).       *)
(***************************************************************************)
KpiCells == {Num(n) : n \in 0..MaxKpi} \cup {NaN}
AnyRows == {Row("A", a, b, d) : a \in KpiCells, b \in KpiCells, d \in KpiCells}
TieRows == {Row("A", Num(1), Num(1), Num(1)), Row("A", Num(1), Num(2), Num(1))}

MissingRows == {Row("A", NaN, NaN, Num(1)), Row("A", Num(1), Num(2), Num(1))}

DataRows ==
  UNION {[1..n -> AnyRows] : n \in 1..2}
    \cup UNION {[1..n -> TieRows] : n \in (TopN - 1)..MaxRows}
    \cup [1..MaxRows -> MissingRows]

InitData ==
  /\ zip_bytes = [valid |-> TRUE, entries |-> {1}]
  /\ selected_year = 2023
  /\ country = ALL_COUNTRIES
  /\ \E rows \in DataRows : sheets = [f \in {1} |-> Table(FullCols, rows)]
  /\ strict_dtypes = TRUE
  /\ InitLocals

\* The stages of invocation 1 that such an upload can take.
NextData ==
  \/ Start(1)
  \/ ExtractAll(1)
  \/ LocateFiles(1)
  \/ Load(1)
  \/ FilterRows(1)
  \/ Compute(1)
  \/ BuildCharts(1)

SpecData == InitData /\ [][NextData]_vars

(***************************************************************************)
(* Properties.                                                             *)
(***************************************************************************)
Done(i) == pc[i] = "done"
IsFullSuccess(r) ==
  /\ r.error = None
  /\ r.plots # None /\ DOMAIN r.plots[1] = PlotKeys
  /\ r.summary # None
IsFailure(r) ==
  /\ r.plots = None
  /\ r.summary = None
  /\ r.error # None /\ r.error[1] # ""

\* C1: whatever stage an invocation stops at, it returns either all five
\* figures and a summary with no error, or no figures, no summary and a
\* non-empty message; the response made of it carries the one or the other.
C1_SuccessOrFailure ==
  \A i \in Invocations :
    Done(i) =>
      /\ IsFullSuccess(result[i]) \/ IsFailure(result[i])
      /\ ~(IsFullSuccess(result[i]) /\ IsFailure(result[i]))
      /\ IsFailure(result[i]) =>
           /\ Response(result[i]).status = 400
           /\ Response(result[i]).plots = None
           /\ Response(result[i]).summary = None
      /\ IsFullSuccess(result[i]) =>
           /\ Response(result[i]).status = 200
           /\ Response(result[i]).error = None

\* An invocation that had a summary and two figures when the exception came.
C1_Witness ==
  \E i \in Invocations :
    /\ Done(i)
    /\ summary[i] # None
    /\ plots[i] # None /\ DOMAIN plots[i][1] # PlotKeys
    /\ IsFailure(result[i])

\* C2: the temporary directory of an invocation, with the archive written
\* and the files extracted into it, exists while the invocation runs and is
\* gone when it has returned, on every exit path.
C2_WorkspaceReleased ==
  \A i \in Invocations :
    /\ Done(i) => ~tmpdir[i].exists /\ ~tmpdir[i].zip /\ tmpdir[i].files = {}
    /\ pc[i] \notin {"idle", "done"} => tmpdir[i].exists /\ tmpdir[i].zip

\* An invocation that ended by an exception while loading, another one still
\* holding its directory.
C2_Witness ==
  \E i, j \in Invocations :
    /\ Done(i) /\ "load" \in stages[i] /\ "filter" \notin stages[i]
    /\ ~tmpdir[i].exists
    /\ tmpdir[j].exists /\ tmpdir[j].files # {}

\* The requested year and the two messages, written out.
YearText == IF selected_year = 2023 THEN "2023" ELSE "20235"
YearDigits ==
  IF selected_year = 2023 THEN <<"2","0","2","3">> ELSE <<"2","0","2","3","5">>
NoFilesText == "No files found for year " \o YearText \o "."
NoDataText == "No data found for " \o country \o " in " \o YearText \o "."

\* Three letters, then four digits, then nothing, the digits being the year.
ExactName(name) ==
  /\ Len(name) = 7
  /\ \A k \in 1..3 : name[k] \in Letters
  /\ \A k \in 4..7 : name[k] \in Digits
  /\ SubSeq(name, 4, 7) = YearDigits

\* C3 (the claim's second half, which its first half implies): a file is in
\* the month-to-path mapping only if its base name is exactly three letters
\* followed by exactly four digits that are the target year.
C3_OnlyExactNamesSelected ==
  \A i \in Invocations :
    \A j \in 1..Len(year_files[i]) :
      ExactName(Catalogue[year_files[i][j].val].stem)

\* C4: in every record with the discrepancy columns, All_Match is true
\* exactly when the three differences are zero, and every difference is a
\* number that is not negative.
C4_AllMatchIffZeroDiffs ==
  \A i \in Invocations :
    "All_Match" \in df[i].columns =>
      \A j \in 1..Len(df[i].rows) :
        LET c == df[i].rows[j].c
        IN /\ c["All_Match"] <=> \A k \in 1..3 : c[DIFF_COLS[k]] = Num(0)
           /\ \A k \in 1..3 : IsNum(c[DIFF_COLS[k]]) /\ c[DIFF_COLS[k]].n >= 0

\* C5: an invocation whose dataset reached the computation with a record
\* lacking a numeric value in a KPI field, or with a source file lacking a
\* KPI column, ends in an error and returns no summary and no figures.
HasBadKpi(i) ==
  \/ \E j \in 1..Len(df[i].rows) :
       \E k \in 1..3 :
         /\ KPI_COLS[k] \in DOMAIN df[i].rows[j].c
         /\ ~IsNum(df[i].rows[j].c[KPI_COLS[k]])
  \/ \E f \in loaded[i] : ~(KpiSet \subseteq sheets[f].columns)
C5_BadKpiIsProcessingError ==
  \A i \in Invocations :
    Done(i) /\ "compute" \in stages[i] /\ HasBadKpi(i) => IsFailure(result[i])

\* C6: when the locator has run and selected no file of the upload, the
\* invocation has returned the message naming the year, with no summary and
\* no figures, has read no file and has run no later stage.
NoneSelected ==
  \A f \in zip_bytes.entries :
    IsXlsx(f) => ~(ReMatch(Catalogue[f].stem) /\ YearOf(Catalogue[f].stem) = YearDigits)
C6_NoFilesForYear ==
  \A i \in Invocations :
    "locate" \in stages[i] /\ NoneSelected =>
      /\ Done(i)
      /\ result[i] = Triple(None, None, Some(NoFilesText))
      /\ loaded[i] = {}
      /\ df[i] = EmptyFrame
      /\ stages[i] \cap {"load", "filter", "compute", "charts"} = {}

\* An upload holding a workbook of another year only.
C6_Witness ==
  \E i \in Invocations :
    /\ Done(i) /\ result[i].error = Some(NoFilesText)
    /\ \E f \in tmpdir[3 - i].files : IsXlsx(f) /\ ReMatch(Catalogue[f].stem)

\* C7: after the filter stage, if a country other than "All Countries" was
\* asked for and no record of the files loaded has it (records of files
\* without a country field having "Unknown" when no file has the field), the
\* invocation has returned the message naming the country and the year, with
\* no summary and no figures; with "All Countries" every record is kept.
RECURSIVE RowCount(_)
RowCount(S) ==
  IF S = {} THEN 0
  ELSE LET f == CHOOSE g \in S : TRUE
       IN Len(sheets[f].rows) + RowCount(S \ {f})
HasCountryRecord(i) ==
  IF \A f \in loaded[i] : "Country" \notin sheets[f].columns
    THEN country = "Unknown" /\ RowCount(loaded[i]) > 0
    ELSE \E f \in loaded[i] :
           \E j \in 1..Len(sheets[f].rows) :
             /\ "Country" \in DOMAIN sheets[f].rows[j]
             /\ sheets[f].rows[j]["Country"] = Txt(country)
C7_NoDataForCountry ==
  \A i \in Invocations :
    "filter" \in stages[i] =>
      /\ country # ALL_COUNTRIES /\ ~HasCountryRecord(i) =>
           Done(i) /\ result[i] = Triple(None, None, Some(NoDataText))
      /\ country = ALL_COUNTRIES => Len(df[i].rows) = RowCount(loaded[i])

\* Country "A" asked of an upload whose only workbook has no country field.
C7_Witness ==
  \E i \in Invocations :
    /\ Done(i) /\ country = "A" /\ loaded[i] = {2}
    /\ result[i].error = Some(NoDataText)

\* C8: the frame behind top_mismatches_table has min(n, 10) of the n records,
\* in descending order of Max_Diff (a record without any difference last),
\* records of equal Max_Diff in dataset order, no record left out ranking
\* before one taken; Max_Diff is the largest of the record's differences.
Rank(cell) == IF IsNaN(cell) THEN -1 ELSE cell.n
Before(r1, r2) ==
  \/ Rank(r1.c["Max_Diff"]) > Rank(r2.c["Max_Diff"])
  \/ Rank(r1.c["Max_Diff"]) = Rank(r2.c["Max_Diff"]) /\ r1.idx < r2.idx
IsLargestDiff(c) ==
  LET present == {k \in 1..3 : ~IsNaN(c[DIFF_COLS[k]])}
  IN IF present = {} THEN IsNaN(c["Max_Diff"])
     ELSE /\ IsNum(c["Max_Diff"])
          /\ \A k \in present : c["Max_Diff"].n >= c[DIFF_COLS[k]].n
          /\ \E k \in present : c["Max_Diff"].n = c[DIFF_COLS[k]].n
C8_TopMismatches ==
  \A i \in Invocations :
    Done(i) /\ "charts" \in stages[i] /\ IsFullSuccess(result[i]) =>
      LET rows == df[i].rows
          top == top_mismatches[i]
          taken == {top[a].idx : a \in 1..Len(top)}
      IN /\ Len(top) = IF Len(rows) < 10 THEN Len(rows) ELSE 10
         /\ \A a \in 1..Len(top) :
              \E j \in 1..Len(rows) :
                /\ rows[j].idx = top[a].idx
                /\ \A col \in TableCols : rows[j].c[col] = top[a].c[col]
         /\ \A a, b \in 1..Len(top) : a < b => Before(top[a], top[b])
         /\ \A j \in 1..Len(rows) :
              rows[j].idx \notin taken =>
                \A a \in 1..Len(top) : Before(top[a], rows[j])
         /\ \A j \in 1..Len(rows) : IsLargestDiff(rows[j].c)
         /\ result[i].plots[1].top_mismatches_table
              = [a \in 1..Len(top) |-> top[a].c]

\* Eleven records, the one left out equal in Max_Diff to one taken.
C8_Witness ==
  /\ Done(1) /\ IsFullSuccess(result[1])
  /\ Len(df[1].rows) = 11 /\ Len(top_mismatches[1]) = 10
  /\ \E j \in 1..11 :
       /\ \A a \in 1..10 : top_mismatches[1][a].idx # df[1].rows[j].idx
       /\ df[1].rows[j].c["Max_Diff"] = top_mismatches[1][10].c["Max_Diff"]
  /\ top_mismatches[1][1].c["Max_Diff"] # top_mismatches[1][10].c["Max_Diff"]

\* C9: without country filter, the dataset assembled is, month label by month
\* label, the rows of the last workbook enumerated under that label, each
\* with that label in Month; its length is the sum of those row counts.
SelectedAt(i) ==
  {j \in 1..Len(excel_files[i]) :
     /\ ReMatch(Catalogue[excel_files[i][j]].stem)
     /\ YearOf(Catalogue[excel_files[i][j]].stem) = YearDigits}
LabelAt(i, j) == Join(SubSeq(Catalogue[excel_files[i][j]].stem, 1, 3))
Winners(i) ==
  {excel_files[i][j] :
     j \in {j \in SelectedAt(i) :
              \A k \in SelectedAt(i) : LabelAt(i, k) = LabelAt(i, j) => k <= j}}
Assembled(i) == "filter" \in stages[i] \/ pc[i] = "filter"
C9_RowsOfSelectedFiles ==
  \A i \in Invocations :
    Assembled(i) /\ country = ALL_COUNTRIES =>
      /\ Len(df[i].rows) = RowCount(Winners(i))
      /\ \A j \in SelectedAt(i) :
           excel_files[i][j] \in Winners(i) =>
             LET mine == SelectSeq(df[i].rows,
                                   LAMBDA r : r.c["Month"] = Txt(LabelAt(i, j)))
                 rows == sheets[excel_files[i][j]].rows
             IN /\ Len(mine) = Len(rows)
                /\ \A a \in 1..Len(rows) :
                     \A col \in DOMAIN rows[a] : mine[a].c[col] = rows[a][col]

\* Two workbooks named Jan2023 in one upload, the dataset assembled.
C9_Witness ==
  \E i \in Invocations :
    /\ Assembled(i) /\ country = ALL_COUNTRIES
    /\ Len(excel_files[i]) = 2 /\ Len(year_files[i]) = 1
    /\ SelectedAt(i) = {1, 2}
    /\ Len(df[i].rows) > 0

\* C10: two invocations given the same bytes, year and country return the
\* same triple, whatever the enumeration orders and the interleaving.
C10_SameInputsSameResult ==
  \A i, j \in Invocations : Done(i) /\ Done(j) => result[i] = result[j]

====
